---- MODULE Spec2Model ----
(***************************************************************************)
(* A model of the CodingAgent repository: the AIAgent conversation loop of *)
(* src/main.py (chat, _execute_tool and the three tool methods it           *)
(* dispatches to) and the standalone file tools of src/tools/.              *)
(*                                                                         *)
(* Strings are sequences of tokens: a token is one character of a path or  *)
(* of a file's content, or one literal fragment of an f-string.  The file  *)
(* system is a function from the paths of a small universe to nodes. A     *)
(* Python call is an operator that yields a record                         *)
(*   [raised, value, fs]: whether an exception escaped, the returned       *)
(* string (str(e) when raised) and the file system it leaves behind.       *)
(***************************************************************************)
EXTENDS Integers, Sequences, FiniteSets, TLC

VARIABLES
    messages,   \* AIAgent.messages: the history
    pc,         \* "idle": no chat call is running; "requesting": chat is at the top of its while loop
    reply,      \* the value the last finished chat call returned
    sent,       \* the messages= argument of the last completion request
    nreq,       \* completion requests issued by the current (or last) chat call
    rounds,     \* tool-call assistant messages received by the current (or last) chat call
    last,       \* what the last completion request came back with
    fs,         \* the file system
    call        \* the last direct call of a function: its name, arguments and outcome,
                \* the file system before it (before) and before its first run (orig)

vars == <<messages, pc, reply, sent, nreq, rounds, last, fs, call>>

(***************************************************************************)
(* Bounds of the model.                                                    *)
(***************************************************************************)
MaxLen == 2      \* longest file content
MaxArg == 1      \* longest old_text / new_text argument of a direct edit_file call
MaxHist == 6     \* longest history
MaxBatch == 2    \* most tool invocations in one assistant message

(***************************************************************************)
(* Strings.                                                                *)
(***************************************************************************)
Alphabet == {"x", "y"}

StrsUpTo(n) == UNION {[1..k -> Alphabet] : k \in 0..n}

Contents == StrsUpTo(MaxLen)

\* old_text not in content, negated: Python's substring test
Contains(s, sub) ==
    \E i \in 1..(Len(s) - Len(sub) + 1) : SubSeq(s, i, i + Len(sub) - 1) = sub

\* the positions at which sub occurs in s
Occurrences(s, sub) ==
    {i \in 1..(Len(s) - Len(sub) + 1) : SubSeq(s, i, i + Len(sub) - 1) = sub}

\* str.replace with its two arguments swapped
RECURSIVE ReplaceSwapped(_, _, _)
ReplaceSwapped(s, old, new) ==
    IF new = <<>> \/ Len(s) < Len(new) THEN s
    ELSE IF SubSeq(s, 1, Len(new)) = new
         THEN old \o ReplaceSwapped(SubSeq(s, Len(new) + 1, Len(s)), old, new)
         ELSE <<s[1]>> \o ReplaceSwapped(Tail(s), old, new)

\* str.replace(old, new) for a non-empty old: every non-overlapping
\* occurrence, scanning from the left
RECURSIVE Replace(_, _, _)
Replace(s, old, new) ==
    IF Len(s) < Len(old) THEN s
    ELSE IF SubSeq(s, 1, Len(old)) = old
         THEN new \o Replace(SubSeq(s, Len(old) + 1, Len(s)), old, new)
         ELSE <<s[1]>> \o Replace(Tail(s), old, new)

(***************************************************************************)
(* Paths and the file system.                                              *)
(***************************************************************************)
Sep == "/"
Dot == <<".">>

TopNames == {"a", "b"}
SubNames == {"c"}
NameOrder == <<"a", "b", "c">>     \* the order sorted() gives the names

Paths == {<<n>> : n \in TopNames}
         \cup {<<n, Sep, m>> : n \in TopNames, m \in SubNames}

Absent == [kind |-> "absent", content |-> <<>>]
Dir == [kind |-> "dir", content |-> <<>>]
File(c) == [kind |-> "file", content |-> c]

Nodes == {Absent, Dir} \cup {File(c) : c \in Contents}

\* os.path.dirname
Dirname(p) ==
    LET seps == {i \in 1..Len(p) : p[i] = Sep}
    IN  IF seps = {} THEN <<>>
        ELSE SubSeq(p, 1, (CHOOSE i \in seps : \A j \in seps : j <= i) - 1)

\* os.path.basename
Basename(p) ==
    LET seps == {i \in 1..Len(p) : p[i] = Sep}
    IN  IF seps = {} THEN p
        ELSE SubSeq(p, (CHOOSE i \in seps : \A j \in seps : j <= i) + 1, Len(p))

\* os.path.join
Join(p, name) == IF p = Dot THEN <<name>> ELSE p \o <<Sep, name>>

Kind(f, p) ==
    IF p = Dot \/ p = <<>> THEN "dir"
    ELSE IF p \in Paths THEN f[p].kind ELSE "absent"

Exists(f, p) == Kind(f, p) # "absent"
IsDir(f, p) == Kind(f, p) = "dir"
IsFile(f, p) == Kind(f, p) = "file"

\* a file system the operating system can hold: an entry lies in a directory
WellFormed(f) == \A p \in Paths : Exists(f, p) => IsDir(f, Dirname(p))

\* what an exception prints as: str(e)
ErrStr(exc, p) == <<exc>> \o p

Ret(v, f) == [raised |-> FALSE, value |-> v, fs |-> f]
Raise(exc, p, f) == [raised |-> TRUE, value |-> ErrStr(exc, p), fs |-> f]

\* K applied to the value of one call: a local name for a result
Bind(r, K(_)) == K(r)

\* open(path, "r") and f.read()
OpenRead(f, p) ==
    IF IsFile(f, p) THEN Ret(f[p].content, f)
    ELSE IF IsDir(f, p) THEN Raise("IsADirectoryError: ", p, f)
    ELSE IF Exists(f, Dirname(p)) /\ ~IsDir(f, Dirname(p)) THEN Raise("NotADirectoryError: ", p, f)
    ELSE Raise("FileNotFoundError: ", p, f)

\* open(path, "w") and f.write(content)
OpenWrite(f, p, c) ==
    IF IsDir(f, p) THEN Raise("IsADirectoryError: ", p, f)
    ELSE IF ~Exists(f, Dirname(p)) THEN Raise("FileNotFoundError: ", p, f)
    ELSE IF ~IsDir(f, Dirname(p)) THEN Raise("NotADirectoryError: ", p, f)
    ELSE IF p \notin Paths THEN Raise("FileNotFoundError: ", p, f)
    ELSE Ret(<<>>, [f EXCEPT ![p] = File(c)])

\* os.makedirs(d, exist_ok=True)
RECURSIVE Makedirs(_, _)
Makedirs(f, d) ==
    IF IsDir(f, d) THEN Ret(<<>>, f)
    ELSE IF Exists(f, d) THEN Raise("FileExistsError: ", d, f)
    ELSE IF d \notin Paths THEN Raise("FileNotFoundError: ", d, f)
    ELSE Bind(Makedirs(f, Dirname(d)), LAMBDA up :
            IF up.raised THEN up ELSE Ret(<<>>, [up.fs EXCEPT ![d] = Dir]))
ExcType(r) == Head(r.value)

\* if dir_name: os.makedirs(dir_name, exist_ok=True)
MakeParent(f, dir_name) == IF dir_name # <<>> THEN Makedirs(f, dir_name) ELSE Ret(<<>>, f)

(***************************************************************************)
(* The tool methods of AIAgent (src/main.py).                              *)
(***************************************************************************)
_read_file(f, path) ==
    Bind(OpenRead(f, path), LAMBDA r :
        IF ~r.raised THEN Ret(<<"File contents of ">> \o path \o <<":\n">> \o r.value, f)
        ELSE IF ExcType(r) = "FileNotFoundError: " THEN Ret(<<"File not found: ">> \o path, f)
        ELSE Ret(<<"Error reading file: ">> \o r.value, f))

\* sorted(os.listdir(path)), each entry behind its [DIR] or [FILE] prefix
Listing(f, path) ==
    Bind(SelectSeq(NameOrder, LAMBDA n : Exists(f, Join(path, n))), LAMBDA names :
        [i \in 1..Len(names) |->
            <<IF IsDir(f, Join(path, names[i])) THEN "[DIR]" ELSE "[FILE]", " ", names[i]>>])
RECURSIVE JoinLines(_)
JoinLines(items) ==
    IF items = <<>> THEN <<>>
    ELSE IF Len(items) = 1 THEN items[1]
    ELSE items[1] \o <<"\n">> \o JoinLines(Tail(items))

_list_files(f, path) ==
    IF ~Exists(f, path) THEN Ret(<<"Path not found: ">> \o path, f)
    ELSE IF ~IsDir(f, path)
    THEN Ret(<<"Error listing files: ">> \o ErrStr("NotADirectoryError: ", path), f)
    ELSE Bind(Listing(f, path), LAMBDA items :
            IF items # <<>>
            THEN Ret(<<"Contents of ">> \o path \o <<":\n">> \o JoinLines(items), f)
            ELSE Ret(<<"Empty directory: ">> \o path, f))

\* the body of _edit_file's try block
EditBody(f, path, old_text, new_text) ==
    IF Exists(f, path) /\ old_text # <<>>
    THEN Bind(OpenRead(f, path), LAMBDA rd :
            IF rd.raised THEN rd
            ELSE IF ~Contains(rd.value, old_text)
            THEN Ret(<<"Text not found in file: ">> \o old_text, f)
            ELSE Bind(OpenWrite(f, path, Replace(rd.value, old_text, new_text)), LAMBDA wr :
                    IF wr.raised THEN wr
                    ELSE Ret(<<"Successfully written to ">> \o path, wr.fs)))
    ELSE Bind(MakeParent(f, Dirname(path)), LAMBDA mk :
            IF mk.raised THEN mk
            ELSE Bind(OpenWrite(mk.fs, path, new_text), LAMBDA wr :
                    IF wr.raised THEN wr
                    ELSE Ret(<<"Successfully written to ">> \o path, wr.fs)))
_edit_file(f, path, old_text, new_text) ==
    Bind(EditBody(f, path, old_text, new_text), LAMBDA r :
        IF r.raised THEN Ret(<<"Error editing file: ">> \o r.value, r.fs) ELSE r)

(***************************************************************************)
(* Decoded tool arguments: what json.loads gives.  A dict is a set of      *)
(* <<key, value>> pairs with one pair per key.                             *)
(***************************************************************************)
DictOf(items) == [kind |-> "dict", items |-> items]
JsonList == [kind |-> "list", items |-> {}]
JsonNull == [kind |-> "null", items |-> {}]

HasKey(d, k) == \E kv \in d.items : kv[1] = k
ValueOf(d, k) == (CHOOSE kv \in d.items : kv[1] = k)[2]

\* tool_input[k]
Subscript(f, d, k) ==
    IF d.kind # "dict" THEN Raise("TypeError: ", <<d.kind>>, f)
    ELSE IF ~HasKey(d, k) THEN Raise("KeyError: ", <<k>>, f)
    ELSE Ret(ValueOf(d, k), f)

\* tool_input.get(k, default)
GetOr(f, d, k, default) ==
    IF d.kind # "dict" THEN Raise("AttributeError: ", <<d.kind>>, f)
    ELSE IF ~HasKey(d, k) THEN Ret(default, f)
    ELSE Ret(ValueOf(d, k), f)

\* the names _setup_tools advertises
AdvertisedTools ==
    {"read_file", "list_files", "edit_file", "delete_file", "create_directory",
     "copy_file", "move_file", "search_file"}

\* the body of _execute_tool's try block: the if/elif chain over tool_name
Dispatch(f, tool_name, tool_input) ==
    IF tool_name = "read_file"
    THEN Bind(Subscript(f, tool_input, "path"), LAMBDA p :
            IF p.raised THEN p ELSE _read_file(f, p.value))
    ELSE IF tool_name = "list_files"
    THEN Bind(GetOr(f, tool_input, "path", Dot), LAMBDA p :
            IF p.raised THEN p ELSE _list_files(f, p.value))
    ELSE IF tool_name = "edit_file"
    THEN Bind(Subscript(f, tool_input, "path"), LAMBDA p :
            IF p.raised THEN p
            ELSE Bind(GetOr(f, tool_input, "old_text", <<>>), LAMBDA o :
                    IF o.raised THEN o
                    ELSE Bind(Subscript(f, tool_input, "new_text"), LAMBDA n :
                            IF n.raised THEN n
                            ELSE _edit_file(f, p.value, o.value, n.value))))
    ELSE Ret(<<"Unknown tool: ", tool_name>>, f)

\* _execute_tool with its except clause left out
ExecuteToolNoExcept(f, tool_name, tool_input) == Dispatch(f, tool_name, tool_input)

_execute_tool(f, tool_name, tool_input) ==
    Bind(Dispatch(f, tool_name, tool_input), LAMBDA r :
        IF r.raised
        THEN Ret(<<"Error executing ", tool_name, ": ">> \o r.value, r.fs)
        ELSE r)

(***************************************************************************)
(* The standalone tools of src/tools/.                                     *)
(***************************************************************************)
read_file(f, path) ==
    Bind(OpenRead(f, path), LAMBDA r :
        IF r.raised THEN r
        ELSE Ret(<<"File contents of ">> \o path \o <<":\n">> \o r.value, f))
edit_file(f, path, new_text, old_text) ==
    Bind(MakeParent(f, Dirname(path)), LAMBDA mk :
        IF mk.raised THEN mk
        ELSE IF Exists(mk.fs, path) /\ old_text # <<>>
        THEN Bind(OpenRead(mk.fs, path), LAMBDA rd :
                IF rd.raised THEN rd
                ELSE IF ~Contains(rd.value, old_text)
                THEN Ret(<<"Text not found in ">> \o path \o <<": ">> \o old_text, mk.fs)
                ELSE Bind(OpenWrite(mk.fs, path, Replace(rd.value, old_text, new_text)),
                          LAMBDA wr :
                            IF wr.raised THEN wr
                            ELSE Ret(<<"Successfully edited ">> \o path, wr.fs)))
        ELSE Bind(OpenWrite(mk.fs, path, new_text), LAMBDA wr :
                IF wr.raised THEN wr
                ELSE Ret(<<"Successfully wrote ">> \o path, wr.fs)))

\* where shutil.move puts the source: inside dst when dst is a directory
RealDst(f, src, dst) == IF IsDir(f, dst) THEN dst \o <<Sep>> \o Basename(src) ELSE dst

\* shutil.move(src, dst) for a source that is a file
ShutilMove(f, src, dst) ==
    Bind(RealDst(f, src, dst), LAMBDA real_dst :
        IF IsDir(f, dst) /\ Exists(f, real_dst)
        THEN Raise("shutil.Error: ", real_dst, f)
        ELSE IF real_dst = src THEN Ret(real_dst, f)
        ELSE IF ~IsDir(f, Dirname(real_dst)) THEN Raise("FileNotFoundError: ", real_dst, f)
        ELSE Ret(real_dst, [f EXCEPT ![real_dst] = f[src], ![src] = Absent]))

\* move_file creating the destination's parent before it looks at the source
MoveBodyParentFirst(f, source_path, destination_path) ==
    Bind(MakeParent(f, Dirname(destination_path)), LAMBDA mk :
        IF mk.raised THEN mk
        ELSE IF ~Exists(mk.fs, source_path)
        THEN Ret(<<"Source file not found: ">> \o source_path, mk.fs)
        ELSE IF IsDir(mk.fs, source_path)
        THEN Ret(<<"Source is a directory, not a file: ">> \o source_path, mk.fs)
        ELSE Bind(ShutilMove(mk.fs, source_path, destination_path), LAMBDA mv :
                IF mv.raised THEN mv
                ELSE Ret(<<"Successfully moved ">> \o source_path \o <<" to ">>
                             \o destination_path, mv.fs)))

\* the body of move_file's try block
MoveBody(f, source_path, destination_path) ==
    IF ~Exists(f, source_path)
    THEN Ret(<<"Source file not found: ">> \o source_path, f)
    ELSE IF IsDir(f, source_path)
    THEN Ret(<<"Source is a directory, not a file: ">> \o source_path, f)
    ELSE Bind(MakeParent(f, Dirname(destination_path)), LAMBDA mk :
            IF mk.raised THEN mk
            ELSE Bind(ShutilMove(mk.fs, source_path, destination_path), LAMBDA mv :
                    IF mv.raised THEN mv
                    ELSE Ret(<<"Successfully moved ">> \o source_path \o <<" to ">>
                                 \o destination_path, mv.fs)))
move_file(f, source_path, destination_path) ==
    Bind(MoveBody(f, source_path, destination_path), LAMBDA r :
        IF ~r.raised THEN r
        ELSE IF ExcType(r) = "PermissionError: "
        THEN Ret(<<"Permission denied: ">> \o source_path \o <<" -> ">> \o destination_path, r.fs)
        ELSE Ret(<<"Error moving ">> \o source_path \o <<" to ">> \o destination_path
                     \o <<": ">> \o r.value, r.fs))

(***************************************************************************)
(* json.loads on a tool call's arguments.  The JSON text is a sequence of  *)
(* tokens: the punctuation { } [ ] : , and null, a key as one token, and a *)
(* string value as its characters between two quote tokens.                *)
(***************************************************************************)
Quote == "'"
JsonKeys == {"path", "old_text", "new_text"}

\* d[k] = v on a dict: a repeated key keeps the last value
Put(items, k, v) == {kv \in items : kv[1] # k} \cup {<<k, v>>}

\* the index of the quote that closes the string opened before position i; 0 when there is none
ClosingQuote(t, i) ==
    LET qs == {j \in i..Len(t) : t[j] = Quote}
    IN  IF qs = {} THEN 0 ELSE CHOOSE j \in qs : \A h \in qs : j <= h

\* the members of an object from position i on: key : 'chars' { , key : 'chars' } }
RECURSIVE ParseMembers(_, _, _)
ParseMembers(t, i, items) ==
    IF i + 3 > Len(t) \/ t[i] \notin JsonKeys \/ t[i + 1] # ":" \/ t[i + 2] # Quote
    THEN [ok |-> FALSE, items |-> {}]
    ELSE Bind(ClosingQuote(t, i + 3), LAMBDA close :
            IF close = 0 \/ close = Len(t) THEN [ok |-> FALSE, items |-> {}]
            ELSE IF t[close + 1] = "}" /\ close + 1 = Len(t)
            THEN [ok |-> TRUE, items |-> Put(items, t[i], SubSeq(t, i + 3, close - 1))]
            ELSE IF t[close + 1] = ","
            THEN ParseMembers(t, close + 2, Put(items, t[i], SubSeq(t, i + 3, close - 1)))
            ELSE [ok |-> FALSE, items |-> {}])

\* json.loads(text): the decoded value, or JSONDecodeError
JsonLoads(f, t) ==
    IF t = <<"null">> THEN Ret(JsonNull, f)
    ELSE IF t = <<"[", "]">> THEN Ret(JsonList, f)
    ELSE IF t = <<"{", "}">> THEN Ret(DictOf({}), f)
    ELSE IF Len(t) > 2 /\ t[1] = "{"
    THEN Bind(ParseMembers(t, 2, {}), LAMBDA m :
            IF m.ok THEN Ret(DictOf(m.items), f) ELSE Raise("JSONDecodeError: ", t, f))
    ELSE Raise("JSONDecodeError: ", t, f)

\* json.dumps of a string value and of one member
JsonStr(v) == <<Quote>> \o v \o <<Quote>>
Member(k, v) == <<k, ":">> \o JsonStr(v)

(***************************************************************************)
(* Messages of the history.                                                *)
(***************************************************************************)
NoneContent == <<"None">>      \* content=None of an assistant message

UserMsg(text) ==
    [role |-> "user", content |-> text, tool_calls |-> <<>>, tool_call_id |-> ""]
AssistantMsg(text, calls) ==
    [role |-> "assistant", content |-> text, tool_calls |-> calls, tool_call_id |-> ""]
ToolMsg(id, text) ==
    [role |-> "tool", content |-> text, tool_calls |-> <<>>, tool_call_id |-> id]

ToolCall(id, name, arguments) == [id |-> id, name |-> name, arguments |-> arguments]

(***************************************************************************)
(* AIAgent.chat (src/main.py).                                             *)
(***************************************************************************)
\* the for loop tagging each result with the invocation's name instead of its id
RECURSIVE RunBatchNameAsId(_, _, _)
RunBatchNameAsId(f, calls, tool_results) ==
    IF calls = <<>> THEN [raised |-> FALSE, value |-> <<>>, fs |-> f, tool_results |-> tool_results]
    ELSE Bind(JsonLoads(f, Head(calls).arguments), LAMBDA args :
            IF args.raised
            THEN [raised |-> TRUE, value |-> args.value, fs |-> f, tool_results |-> tool_results]
            ELSE Bind(_execute_tool(f, Head(calls).name, args.value), LAMBDA result :
                    RunBatchNameAsId(result.fs, Tail(calls),
                        Append(tool_results, ToolMsg(Head(calls).name, result.value)))))

\* the for loop over message.tool_calls: decode, execute, collect the result
RECURSIVE RunBatch(_, _, _)
RunBatch(f, calls, tool_results) ==
    IF calls = <<>> THEN [raised |-> FALSE, value |-> <<>>, fs |-> f, tool_results |-> tool_results]
    ELSE Bind(JsonLoads(f, Head(calls).arguments), LAMBDA args :
            IF args.raised
            THEN [raised |-> TRUE, value |-> args.value, fs |-> f, tool_results |-> tool_results]
            ELSE Bind(_execute_tool(f, Head(calls).name, args.value), LAMBDA result :
                    IF result.raised
                    THEN [raised |-> TRUE, value |-> result.value, fs |-> result.fs,
                          tool_results |-> tool_results]
                    ELSE RunBatch(result.fs, Tail(calls),
                                  Append(tool_results, ToolMsg(Head(calls).id, result.value)))))

\* what one pass of the while loop leaves: the history, the file system and,
\* when chat returns in this pass, the reply
Pass(msgs, f, returned, raised, text) ==
    [messages |-> msgs, fs |-> f, returned |-> returned, raised |-> raised, reply |-> text]

\* chat undoing the turn's last message when the completion request fails
ChatRoundRollback(msgs, f, resp) ==
    IF ~resp.ok
    THEN Pass(SubSeq(msgs, 1, Len(msgs) - 1), f, TRUE, FALSE, <<"Error: ">> \o resp.error)
    ELSE IF resp.message.tool_calls # <<>>
    THEN Bind(RunBatch(f, resp.message.tool_calls, <<>>), LAMBDA b :
            IF b.raised
            THEN Pass(Append(msgs, resp.message), b.fs, TRUE, FALSE, <<"Error: ">> \o b.value)
            ELSE Pass(Append(msgs, resp.message) \o b.tool_results, b.fs, FALSE, FALSE, <<>>))
    ELSE Pass(Append(msgs, resp.message), f, TRUE, FALSE,
              IF resp.message.content = NoneContent THEN <<>> ELSE resp.message.content)

\* chat with no except clause: the failure of the request escapes
ChatRoundNoExcept(msgs, f, resp) ==
    IF ~resp.ok THEN Pass(msgs, f, TRUE, TRUE, resp.error)
    ELSE IF resp.message.tool_calls # <<>>
    THEN Bind(RunBatch(f, resp.message.tool_calls, <<>>), LAMBDA b :
            IF b.raised
            THEN Pass(Append(msgs, resp.message), b.fs, TRUE, TRUE, b.value)
            ELSE Pass(Append(msgs, resp.message) \o b.tool_results, b.fs, FALSE, FALSE, <<>>))
    ELSE Pass(Append(msgs, resp.message), f, TRUE, FALSE,
              IF resp.message.content = NoneContent THEN <<>> ELSE resp.message.content)

\* one pass of chat's while loop, given what the completion request came back
\* with: resp.ok is FALSE when create() raised resp.error
ChatRound(msgs, f, resp) ==
    IF ~resp.ok THEN Pass(msgs, f, TRUE, FALSE, <<"Error: ">> \o resp.error)
    ELSE IF resp.message.tool_calls # <<>>
    THEN Bind(RunBatch(f, resp.message.tool_calls, <<>>), LAMBDA b :
            IF b.raised
            THEN Pass(Append(msgs, resp.message), b.fs, TRUE, FALSE, <<"Error: ">> \o b.value)
            ELSE Pass(Append(msgs, resp.message) \o b.tool_results, b.fs, FALSE, FALSE, <<>>))
    ELSE Pass(Append(msgs, resp.message), f, TRUE, FALSE,
              IF resp.message.content = NoneContent THEN <<>> ELSE resp.message.content)

(***************************************************************************)
(* The remote model and the user: what the conversation loop is fed.       *)
(***************************************************************************)
UserInputs == {<<"hi">>}
FinalContents == {NoneContent, <<>>, <<"done">>}
TransportErrors == {<<"Connection error.">>}

PathA == <<"a">>

\* the tool invocations the remote model asks for
Calls ==
    { ToolCall("c1", "read_file", <<"{">> \o Member("path", PathA) \o <<"}">>),
      ToolCall("c2", "edit_file",
               <<"{">> \o Member("path", PathA) \o <<",">> \o Member("old_text", <<"x">>)
                   \o <<",">> \o Member("new_text", <<"y">>) \o <<"}">>),
      ToolCall("c1", "edit_file", <<"{">> \o Member("path", PathA) \o <<"}">>),
      ToolCall("c2", "read_file", <<"{", "path", ":", Quote, "a">>),
      ToolCall("c3", "list_files", <<"{", "}">>),
      ToolCall("c1", "delete_file", <<"{">> \o Member("path", PathA) \o <<"}">>) }

Batches == UNION {[1..k -> Calls] : k \in 1..MaxBatch}

Failed(error) == [ok |-> FALSE, error |-> error, message |-> AssistantMsg(NoneContent, <<>>)]
Answered(message) == [ok |-> TRUE, error |-> <<>>, message |-> message]

NoLast == [kind |-> "none", calls |-> <<>>, raised |-> FALSE]

NoArgs ==
    [path |-> <<>>, dst |-> <<>>, old |-> <<>>, new |-> <<>>, name |-> "", input |-> JsonNull]
NoCall(f) ==
    [fn |-> "none", args |-> NoArgs, runs |-> 0, raised |-> FALSE, value |-> <<>>,
     before |-> f, orig |-> f]

\* the working directory the agent starts in
AgentFs ==
    { [p \in Paths |-> IF p = PathA THEN File(<<"x">>) ELSE IF p = <<"b">> THEN Dir ELSE Absent],
      [p \in Paths |-> Absent] }

Init ==
    /\ messages = <<>>
    /\ pc = "idle"
    /\ reply = <<>>
    /\ sent = <<>>
    /\ nreq = 0
    /\ rounds = 0
    /\ last = NoLast
    /\ fs \in AgentFs
    /\ call = NoCall(fs)

\* main's loop hands a non-empty line to chat, which appends the user message
ChatStart(user_input) ==
    /\ pc = "idle"
    /\ Len(messages) + 2 <= MaxHist
    /\ messages' = Append(messages, UserMsg(user_input))
    /\ pc' = "requesting"
    /\ nreq' = 0
    /\ rounds' = 0
    /\ UNCHANGED <<reply, sent, last, fs, call>>

\* the while loop with a guard: the turn ends after its second tool round
CompleteRoundLimit(resp, kind) ==
    /\ pc = "requesting"
    /\ \E out \in {ChatRound(messages, fs, resp)} :
           /\ sent' = messages
           /\ nreq' = nreq + 1
           /\ messages' = out.messages
           /\ fs' = out.fs
           /\ pc' = IF out.returned \/ (kind = "tools" /\ rounds >= 1) THEN "idle" ELSE "requesting"
           /\ reply' = IF out.returned THEN out.reply ELSE reply
           /\ rounds' = IF kind = "tools" THEN rounds + 1 ELSE rounds
           /\ last' = [kind |-> kind, calls |-> resp.message.tool_calls, raised |-> out.raised]
    /\ UNCHANGED call

\* one pass of chat's while loop: the request goes out with the whole history
\* and comes back as resp
Complete(resp, kind) ==
    /\ pc = "requesting"
    /\ \E out \in {ChatRound(messages, fs, resp)} :
           /\ sent' = messages
           /\ nreq' = nreq + 1
           /\ messages' = out.messages
           /\ fs' = out.fs
           /\ pc' = IF out.returned THEN "idle" ELSE "requesting"
           /\ reply' = IF out.returned THEN out.reply ELSE reply
           /\ rounds' = IF kind = "tools" THEN rounds + 1 ELSE rounds
           /\ last' = [kind |-> kind, calls |-> resp.message.tool_calls, raised |-> out.raised]
    /\ UNCHANGED call
CompletionFails == \E e \in TransportErrors : Complete(Failed(e), "failed")

CompletionFinal ==
    \E c \in FinalContents : Complete(Answered(AssistantMsg(c, <<>>)), "final")

CompletionToolCalls ==
    \E b \in Batches :
        /\ Len(messages) + Len(b) + 2 <= MaxHist
        /\ Complete(Answered(AssistantMsg(NoneContent, b)), "tools")

Next ==
    \/ \E u \in UserInputs : ChatStart(u)
    \/ CompletionFails
    \/ CompletionFinal
    \/ CompletionToolCalls

Spec == Init /\ [][Next]_vars

\* every completion request is answered, and the model eventually answers
\* with a message that carries no tool call
FairSpec == Spec /\ WF_vars(CompletionFinal \/ CompletionToolCalls) /\ SF_vars(CompletionFinal)

(***************************************************************************)
(* Direct calls of the tools, on any file system.                          *)
(***************************************************************************)
ExecNames == AdvertisedTools \cup {"rm"}
ExecTexts == {<<"x">>}
ExecPaths == {PathA, <<"b", Sep, "c">>, Dot}

Field(k, vals) == {{}} \cup {{<<k, v>>} : v \in vals}

ExecInputs ==
    {JsonList, JsonNull}
    \cup {DictOf(p \cup o \cup n) : p \in Field("path", ExecPaths),
                                    o \in Field("old_text", ExecTexts),
                                    n \in Field("new_text", ExecTexts)}

ArgTexts == StrsUpTo(MaxArg)

Bounded(f) == \A p \in Paths : Len(f[p].content) <= MaxLen

ToolsInit ==
    /\ messages = <<>>
    /\ pc = "idle"
    /\ reply = <<>>
    /\ sent = <<>>
    /\ nreq = 0
    /\ rounds = 0
    /\ last = NoLast
    /\ fs \in {f \in [Paths -> Nodes] : WellFormed(f)}
    /\ call = NoCall(fs)

\* the function fn applied to its arguments on the file system f
Apply(fn, args, f) ==
    CASE fn = "_execute_tool" -> _execute_tool(f, args.name, args.input)
      [] fn = "_read_file" -> _read_file(f, args.path)
      [] fn = "_edit_file" -> _edit_file(f, args.path, args.old, args.new)
      [] fn = "read_file" -> read_file(f, args.path)
      [] fn = "edit_file" -> edit_file(f, args.path, args.new, args.old)
      [] fn = "move_file" -> move_file(f, args.path, args.dst)

Run(fn, args) ==
    \E r \in {Apply(fn, args, fs)} :
        /\ Bounded(r.fs)
        /\ call' = [fn |-> fn, args |-> args, runs |-> call.runs + 1,
                    raised |-> r.raised, value |-> r.value, before |-> fs,
                    orig |-> IF call.runs = 0 THEN fs ELSE call.orig]
        /\ fs' = r.fs
        /\ UNCHANGED <<messages, pc, reply, sent, nreq, rounds, last>>

CallExecuteTool ==
    \E name \in ExecNames, input \in ExecInputs :
        /\ call.runs = 0
        /\ Run("_execute_tool", [NoArgs EXCEPT !.name = name, !.input = input])

CallAgentReadFile ==
    \E p \in Paths : call.runs = 0 /\ Run("_read_file", [NoArgs EXCEPT !.path = p])

CallReadFile ==
    \E p \in Paths : call.runs = 0 /\ Run("read_file", [NoArgs EXCEPT !.path = p])

CallAgentEditFile ==
    \E p \in Paths, old \in ArgTexts, new \in ArgTexts :
        /\ call.runs = 0
        /\ Run("_edit_file", [NoArgs EXCEPT !.path = p, !.old = old, !.new = new])

CallEditFile ==
    \E p \in Paths, old \in ArgTexts, new \in ArgTexts :
        /\ call.runs = 0
        /\ Run("edit_file", [NoArgs EXCEPT !.path = p, !.old = old, !.new = new])

CallMoveFile ==
    \E src \in Paths, dst \in Paths :
        /\ call.runs = 0
        /\ RealDst(fs, src, dst) \in Paths
        /\ Run("move_file", [NoArgs EXCEPT !.path = src, !.dst = dst])

\* the same call a second time, on the file system the first one left
CallAgain ==
    /\ call.runs = 1
    /\ call.fn = "move_file" => RealDst(fs, call.args.path, call.args.dst) \in Paths
    /\ Run(call.fn, call.args)

ToolsNext ==
    \/ CallExecuteTool
    \/ CallAgentReadFile
    \/ CallReadFile
    \/ CallAgentEditFile
    \/ CallEditFile
    \/ CallMoveFile
    \/ CallAgain

ToolsSpec == ToolsInit /\ [][ToolsNext]_vars

(***************************************************************************)
(* The claims about the conversation loop, checked under Spec.             *)
(***************************************************************************)
IsPrefix(s, t) == Len(s) <= Len(t) /\ SubSeq(t, 1, Len(s)) = s

HasToolCalls(m) == m.role = "assistant" /\ m.tool_calls # <<>>

\* the messages after position j of history h are the results of sent
\* invocations calls, one each, in order, each with its invocation's id
ResultsFollow(h, j, calls) ==
    /\ j + Len(calls) <= Len(h)
    /\ \A i \in 1..Len(calls) :
           h[j + i].role = "tool" /\ h[j + i].tool_call_id = calls[i].id
    /\ j + Len(calls) < Len(h) => h[j + Len(calls) + 1].role # "tool"

Undecodable(calls) == \E i \in 1..Len(calls) : JsonLoads(fs, calls[i].arguments).raised

\* C1: a batch of tool invocations never aborts the turn, whatever its
\* argument payloads: once the model has answered with tool invocations
\* (and until the next answer), chat is still running, about to request
\* another completion, and the history ends with the batch's tool results.
C1_BatchNeverAbortsTurn ==
    last.kind = "tools" =>
        /\ pc = "requesting"
        /\ ResultsFollow(messages, Len(messages) - Len(last.calls), last.calls)

\* C2: every history sent in a completion request holds, right after each
\* assistant message with k >= 1 invocations, exactly k tool results that
\* carry the invocations' ids in order; and a turn that ended with a
\* tool-call-free message after r tool-call messages issued r + 1 requests.
C2_ResultsBeforeNextRequest ==
    /\ \A j \in 1..Len(sent) : HasToolCalls(sent[j]) => ResultsFollow(sent, j, sent[j].tool_calls)
    /\ (pc = "idle" /\ last.kind = "final") => nreq = rounds + 1

\* the position of the nearest assistant message before position i of the history; 0 when none
NearestAssistant(h, i) ==
    IF \E j \in 1..(i - 1) : h[j].role = "assistant"
    THEN CHOOSE j \in 1..(i - 1) :
            h[j].role = "assistant" /\ \A n \in (j + 1)..(i - 1) : h[n].role # "assistant"
    ELSE 0

\* C3: every tool-result message of the history carries the id of an
\* invocation of the nearest assistant message before it, and only
\* tool-result messages lie between the two.
C3_ResultsCorrelated ==
    \A i \in 1..Len(messages) :
        messages[i].role = "tool" =>
            /\ NearestAssistant(messages, i) # 0
            /\ \E c \in 1..Len(messages[NearestAssistant(messages, i)].tool_calls) :
                   messages[NearestAssistant(messages, i)].tool_calls[c].id
                       = messages[i].tool_call_id
            /\ \A n \in (NearestAssistant(messages, i) + 1)..(i - 1) : messages[n].role = "tool"

\* a batch of two invocations with different ids has been answered
C3_Witness ==
    \E i \in 2..Len(messages) :
        /\ messages[i].role = "tool"
        /\ messages[i - 1].role = "tool"
        /\ messages[i].tool_call_id # messages[i - 1].tool_call_id

\* C4: a failed completion request ends the turn with a reply that begins
\* with "Error: " and raises nothing, leaves the history as it was when the
\* request went out, and the first request of the next chat call sends that
\* history plus the new user message.
C4_TransportFailureEndsTurnOnly ==
    [][ /\ (pc = "requesting" /\ last'.kind = "failed") =>
              /\ pc' = "idle"
              /\ ~last'.raised
              /\ Head(reply') = "Error: "
              /\ messages' = messages
              /\ sent' = messages
        /\ (pc = "requesting" /\ nreq = 0 /\ nreq' = 1 /\ last.kind = "failed") =>
              /\ sent' = messages
              /\ IsPrefix(sent, messages)
              /\ Len(messages) = Len(sent) + 1
              /\ messages[Len(messages)].role = "user"
      ]_vars

\* the request failed after an earlier tool round of the same turn, and the
\* next chat call has appended its user message
C4_Witness ==
    /\ pc = "requesting"
    /\ nreq = 0
    /\ last.kind = "failed"
    /\ \E j \in 1..Len(messages) : messages[j].role = "tool"

\* C5: the history only grows: at every step the history before is a prefix
\* of the history after.
C5_HistoryAppendOnly == [][IsPrefix(messages, messages')]_vars

\* a turn ended with an error and the history has kept its messages
C5_Witness ==
    /\ pc = "idle"
    /\ reply # <<>>
    /\ Head(reply) = "Error: "
    /\ Len(messages) >= 3

(***************************************************************************)
(* The claims about the tools, checked under ToolsSpec.                    *)
(***************************************************************************)
Implemented == {"read_file", "list_files", "edit_file"}

\* the decoded arguments lack something the named tool subscripts or calls
MissingRequired(name, input) ==
    \/ name \in Implemented /\ input.kind # "dict"
    \/ name = "read_file" /\ ~HasKey(input, "path")
    \/ name = "edit_file" /\ (~HasKey(input, "path") \/ ~HasKey(input, "new_text"))

\* C6: _execute_tool never lets an exception escape and always returns a
\* non-empty content string, for every tool name and decoded arguments:
\* a name with no implementation yields the "Unknown tool" result, and
\* arguments that lack a required key yield an "Error executing" result,
\* both leaving the file system as it was.
C6_ExecuteToolInfallible ==
    call.fn = "_execute_tool" =>
        /\ ~call.raised
        /\ call.value # <<>>
        /\ call.args.name \notin Implemented =>
               call.value = <<"Unknown tool: ", call.args.name>> /\ fs = call.before
        /\ MissingRequired(call.args.name, call.args.input) =>
               Head(call.value) = "Error executing " /\ fs = call.before

\* edit_file was dispatched with a path and no new_text
C6_Witness ==
    /\ call.fn = "_execute_tool"
    /\ call.args.name = "edit_file"
    /\ call.args.input.kind = "dict"
    /\ HasKey(call.args.input, "path")
    /\ ~HasKey(call.args.input, "new_text")

\* C7: read_file (src/tools/read_file.py) and AIAgent._read_file, called on
\* a path that does not exist, raise nothing, return a string that tells
\* the file could not be read, and leave the file system unchanged.
C7_ReadMissingNeverRaises ==
    (call.fn \in {"read_file", "_read_file"} /\ ~Exists(call.before, call.args.path)) =>
        /\ ~call.raised
        /\ Head(call.value) \in {"File not found: ", "Error reading file: "}
        /\ fs = call.before

Edits == {"edit_file", "_edit_file"}

\* the call is an edit of a file in which old_text, not empty, occurred at
\* exactly one position before the first run
OnceBefore ==
    /\ call.fn \in Edits
    /\ IsFile(call.orig, call.args.path)
    /\ call.args.old # <<>>
    /\ Cardinality(Occurrences(call.orig[call.args.path].content, call.args.old)) = 1

\* content with its one occurrence of old cut out and new put in its place
Spliced(content, old, new) ==
    SubSeq(content, 1, (CHOOSE i \in Occurrences(content, old) : TRUE) - 1)
        \o new
        \o SubSeq(content, (CHOOSE i \in Occurrences(content, old) : TRUE) + Len(old),
                  Len(content))

FirstEditDone ==
    /\ ~call.raised
    /\ fs = [call.orig EXCEPT ![call.args.path] =
                File(Spliced(call.orig[call.args.path].content, call.args.old, call.args.new))]

TextNotFound(v) == Head(v) \in {"Text not found in file: ", "Text not found in "}
EditSucceeded(v) == Head(v) \in {"Successfully written to ", "Successfully edited "}

\* C8 as stated: after an edit that replaced the one occurrence of old_text
\* the file holds the spliced content, and the same edit run again fails
\* with a text-not-found result and changes nothing, whatever new_text is.
C8_SecondEditAlwaysFails ==
    OnceBefore =>
        /\ call.runs = 1 => FirstEditDone
        /\ call.runs = 2 => (~call.raised /\ TextNotFound(call.value) /\ fs = call.before)

\* C8 as amended: the file holds the spliced content after the first run;
\* the second run fails with a text-not-found result and changes nothing
\* exactly when old_text does not occur in that content, and otherwise
\* succeeds and touches no other path.
C8_SecondEditFailsUnlessOldRemains ==
    OnceBefore =>
        /\ call.runs = 1 => FirstEditDone
        /\ call.runs = 2 =>
               /\ ~call.raised
               /\ call.before[call.args.path]
                      = File(Spliced(call.orig[call.args.path].content, call.args.old,
                                     call.args.new))
               /\ IF Contains(call.before[call.args.path].content, call.args.old)
                  THEN /\ EditSucceeded(call.value)
                       /\ \A q \in Paths \ {call.args.path} : fs[q] = call.before[q]
                  ELSE TextNotFound(call.value) /\ fs = call.before

\* the second run of an edit of a two-character file failed with text-not-found
C8_Witness ==
    /\ OnceBefore
    /\ call.runs = 2
    /\ Len(call.orig[call.args.path].content) = 2
    /\ call.args.new # <<>>
    /\ TextNotFound(call.value)

\* C9: move_file on a source that is a directory returns its rejection, and
\* on a source that does not exist its not-found string; in both cases
\* nothing is raised and the file system is left as it was, the
\* destination's parent directories included.
C9_MoveRejectsWithoutEffect ==
    call.fn = "move_file" =>
        /\ IsDir(call.before, call.args.path) =>
               /\ ~call.raised
               /\ call.value = <<"Source is a directory, not a file: ">> \o call.args.path
               /\ fs = call.before
        /\ ~Exists(call.before, call.args.path) =>
               /\ ~call.raised
               /\ call.value = <<"Source file not found: ">> \o call.args.path
               /\ fs = call.before

\* a directory was the source of a move to a destination whose parent did not exist
C9_Witness ==
    /\ call.fn = "move_file"
    /\ IsDir(call.before, call.args.path)
    /\ Dirname(call.args.dst) # <<>>
    /\ ~Exists(call.before, Dirname(call.args.dst))

(***************************************************************************)
(* The claim about the end of a turn, checked under FairSpec.              *)
(***************************************************************************)
\* C10: a pass of the loop ends the turn exactly when the model's answer
\* carries no tool call (its text, or the empty string for None, is then
\* the reply) or the request or the batch failed; after any other pass,
\* however many tool rounds the turn has had, chat requests again.  When
\* requests are answered and a tool-call-free answer eventually comes,
\* the turn ends.
C10_TurnEndsOnFinalOrFailure ==
    /\ [][ (pc = "requesting" /\ nreq' = nreq + 1) =>
              /\ pc' = "idle" <=>
                     \/ last'.kind \in {"final", "failed"}
                     \/ Undecodable(last'.calls)
              /\ last'.kind = "final" =>
                     /\ messages' = Append(messages, messages'[Len(messages')])
                     /\ reply' = IF messages'[Len(messages')].content = NoneContent
                                 THEN <<>> ELSE messages'[Len(messages')].content
         ]_vars
    /\ (pc = "requesting") ~> (pc = "idle")

\* a turn ended with a final answer after two tool rounds
C10_Witness ==
    /\ pc = "idle"
    /\ last.kind = "final"
    /\ rounds >= 2

\* C11: every tool name AIAgent advertises in its registry is resolved by
\* _execute_tool to an implementation: dispatching an advertised name, with
\* whatever decoded arguments, never answers with the "Unknown tool" result.
C11_AdvertisedToolsResolved ==
    (call.fn = "_execute_tool" /\ call.args.name \in AdvertisedTools) =>
        Head(call.value) # "Unknown tool: "

====
